---- MODULE Spec2Model ----
(***************************************************************************)
(* State-machine model of the ternary circuit engine                       *)
(* (src/ternuino_designer/core/logic.py), of the loader and the dump of a   *)
(* circuit description (core/io.py), of the script of tests/smoke_test.py  *)
(* and of the canvas operations that load a description and delete a       *)
(* component (gui.py).                                                     *)
(*                                                                         *)
(* A Circuit is the pair of its `components` dict and its `wires` list.    *)
(* A Python dict keeps insertion order, so the dict is modelled by the     *)
(* function `components` (id -> component) together with the sequence      *)
(* `order` of its keys.  A component is a record holding its type, its     *)
(* ports (port name -> value) and the attribute its class adds: `value`    *)
(* for the switches, `state` for TLatch._state, `last` for Probe.last.     *)
(***************************************************************************)
EXTENDS Integers, Sequences, FiniteSets, TLC

VARIABLES
    components,  \* Circuit.components: id -> component
    order,       \* key order of the Circuit.components dict
    wires,       \* Circuit.wires: list of Wire
    raised,      \* exception raised by the last call ("none" if it returned)
    lastOp,      \* the last operation called on the circuit
    hist,        \* values the chain's switch output held at the last steps, newest first
    pc,          \* position in the script of tests/smoke_test.py run()
    drivers,     \* argument of the resolve_wire call
    resolved,    \* result of the resolve_wire call (<<>> before the call)
    probed       \* value returned by the last get_probe call (<<>> if none returned)

vars == <<components, order, wires, raised, lastOp, hist, pc, drivers, resolved, probed>>

\* ------------------------------------------------------------------ bounds

\* longest wire list the connect action builds
MaxWires == 2

\* number of gates in the chain switch -> g1 -> ... -> gN
ChainLen == 3

\* longest driver list handed to resolve_wire
MaxDrivers == 4

\* longest component list of a circuit description handed to the loader
LoadLen == 2

\* most components on the canvas at a time
MaxPlaced == 2

\* integer arguments handed to constructors and set_switch (the code clamps them)
ArgInts == -2 .. 2

\* the arguments the specifications that also build the circuit draw from
FewInts == {-2, 0, 1}

Trits == {-1, 0, 1}

\* ------------------------------------------------------------------ helpers

Range(s) == {s[i] : i \in 1 .. Len(s)}

min(a, b) == IF a <= b THEN a ELSE b

max(a, b) == IF a >= b THEN a ELSE b

\* index of the first element of s equal to x (list.index), 0 when absent
RECURSIVE IndexFrom(_, _, _)
IndexFrom(s, x, i) ==
    IF i > Len(s) THEN 0
    ELSE IF s[i] = x THEN i
    ELSE IndexFrom(s, x, i + 1)

index(s, x) == IndexFrom(s, x, 1)

\* ------------------------------------------------------------------ values

\* A slip of clamp_t: the value is stored as given.
clamp_none(v) == v

clamp_t(v) ==
    IF v > 1 THEN 1
    ELSE IF v < -1 THEN -1
    ELSE v

\* A slip of resolve_wire: the first driver wins.
resolve_first(ds) == IF Len(ds) = 0 THEN 0 ELSE ds[1]

resolve_wire(ds) ==
    LET s == Range(ds)
    IN  IF -1 \in s /\ 1 \in s THEN 0
        ELSE IF 1 \in s THEN 1
        ELSE IF -1 \in s THEN -1
        ELSE 0

\* ------------------------------------------------------------------ components

get_in(comp, name) == comp.ports[name]

set_out(comp, name, val) == [comp EXCEPT !.ports[name] = clamp_t(val)]

\* SwitchBinary.__init__: `1 if value else 0`
SwitchBinary(value) ==
    LET v == IF value # 0 THEN 1 ELSE 0
    IN  set_out([type |-> "SwitchBinary", ports |-> [out |-> 0], value |-> v], "out", v)

SwitchTernary(value) ==
    LET v == clamp_t(value)
    IN  set_out([type |-> "SwitchTernary", ports |-> [out |-> 0], value |-> v], "out", v)

TNOT == [type |-> "TNOT", ports |-> [in |-> 0, out |-> 0]]

TAND == [type |-> "TAND", ports |-> [in1 |-> 0, in2 |-> 0, out |-> 0]]

TNOR == [type |-> "TNOR", ports |-> [in1 |-> 0, in2 |-> 0, out |-> 0]]

Transistor == [type |-> "Transistor", ports |-> [presence |-> 0, sign |-> 0, out |-> 0]]

TLatch == [type |-> "TLatch", ports |-> [in |-> 0, enable |-> 0, out |-> 0], state |-> 0]

Probe == [type |-> "Probe", ports |-> [in |-> 0], last |-> 0]

TFullAdder ==
    [type |-> "TFullAdder", ports |-> [ai |-> 0, bi |-> 0, ci |-> 0, so |-> 0, co |-> 0]]

SwitchTypes == {"SwitchBinary", "SwitchTernary"}

GateTypes == {"TNOT", "TAND", "TNOR", "Transistor", "TLatch", "Probe", "TFullAdder"}

\* COMPONENT_REGISTRY[ctype](id, value) for a switch, COMPONENT_REGISTRY[ctype](id) otherwise
Construct(ctype, value) ==
    CASE ctype = "SwitchBinary" -> SwitchBinary(value)
      [] ctype = "SwitchTernary" -> SwitchTernary(value)
      [] ctype = "TNOT" -> TNOT
      [] ctype = "TAND" -> TAND
      [] ctype = "TNOR" -> TNOR
      [] ctype = "Transistor" -> Transistor
      [] ctype = "TLatch" -> TLatch
      [] ctype = "Probe" -> Probe
      [] ctype = "TFullAdder" -> TFullAdder

\* Port.direction of the ports each class declares
PortDirection(ctype, name) ==
    IF name \in {"out", "so", "co"} THEN "out" ELSE "in"

SwitchBinary_toggle(comp) ==
    LET v == IF comp.value = 1 THEN 0 ELSE 1
    IN  set_out([comp EXCEPT !.value = v], "out", v)

\* A slip of SwitchTernary.toggle: the cycle runs backwards.
SwitchTernary_toggle_back(comp) ==
    LET cycle == <<-1, 0, 1>>
        idx == (index(cycle, comp.value) - 1 + 2) % 3
        v == cycle[idx + 1]
    IN  set_out([comp EXCEPT !.value = v], "out", v)

SwitchTernary_toggle(comp) ==
    LET cycle == <<-1, 0, 1>>
        idx == (index(cycle, comp.value) - 1 + 1) % 3
        v == cycle[idx + 1]
    IN  set_out([comp EXCEPT !.value = v], "out", v)

toggle(comp) ==
    IF comp.type = "SwitchBinary" THEN SwitchBinary_toggle(comp)
    ELSE SwitchTernary_toggle(comp)

TNOT_step(comp) == set_out(comp, "out", -get_in(comp, "in"))

TAND_step(comp) == set_out(comp, "out", min(get_in(comp, "in1"), get_in(comp, "in2")))

\* A slip of TNOR.step: the maximum is not negated.
TNOR_step_or(comp) == set_out(comp, "out", max(get_in(comp, "in1"), get_in(comp, "in2")))

TNOR_step(comp) == set_out(comp, "out", -max(get_in(comp, "in1"), get_in(comp, "in2")))

\* A slip of Transistor.step: only a positive presence conducts.
Transistor_step_positive(comp) ==
    LET p == get_in(comp, "presence")
        s == get_in(comp, "sign")
    IN  IF p > 0 /\ s # 0 THEN set_out(comp, "out", s)
        ELSE set_out(comp, "out", 0)

Transistor_step(comp) ==
    LET p == get_in(comp, "presence")
        s == get_in(comp, "sign")
    IN  IF p # 0 /\ s # 0 THEN set_out(comp, "out", s)
        ELSE set_out(comp, "out", 0)

\* A slip of TLatch.step: the output is written only when the input is stored.
TLatch_step_lazy(comp) ==
    IF get_in(comp, "enable") = 1
    THEN set_out([comp EXCEPT !.state = get_in(comp, "in")], "out", get_in(comp, "in"))
    ELSE comp

\* A slip of TLatch.step: any non-zero enable stores the input.
TLatch_step_nonzero(comp) ==
    LET c1 == IF get_in(comp, "enable") # 0
              THEN [comp EXCEPT !.state = get_in(comp, "in")]
              ELSE comp
    IN  set_out(c1, "out", c1.state)

TLatch_step(comp) ==
    LET c1 == IF get_in(comp, "enable") = 1
              THEN [comp EXCEPT !.state = get_in(comp, "in")]
              ELSE comp
    IN  set_out(c1, "out", c1.state)

\* a Probe whose step forgets to read its port
Probe_step_stale(comp) == comp

Probe_step(comp) == [comp EXCEPT !.last = get_in(comp, "in")]

\* A slip of the carry: int(total / 3.0) truncates toward zero.
round3_trunc(total) == IF total >= 0 THEN total \div 3 ELSE -((-total) \div 3)

\* int(round(total / 3.0)): total / 3.0 is never half-way between two integers,
\* so Python's round gives the nearest integer, floor((2 * total + 3) / 6)
round3(total) == (2 * total + 3) \div 6

TFullAdder_step(comp) ==
    LET a == get_in(comp, "ai")
        b == get_in(comp, "bi")
        c == get_in(comp, "ci")
        total == a + b + c
        co0 == round3(total)
        co == IF co0 > 1 THEN 1 ELSE IF co0 < -1 THEN -1 ELSE co0
        so == total - 3 * co
    IN  set_out(set_out(comp, "co", clamp_t(co)), "so", clamp_t(so))

\* comp.step(), dispatched on the class; Component.step (the switches) is `pass`
comp_step(comp) ==
    CASE comp.type = "TNOT" -> TNOT_step(comp)
      [] comp.type = "TAND" -> TAND_step(comp)
      [] comp.type = "TNOR" -> TNOR_step(comp)
      [] comp.type = "Transistor" -> Transistor_step(comp)
      [] comp.type = "TLatch" -> TLatch_step(comp)
      [] comp.type = "Probe" -> Probe_step(comp)
      [] comp.type = "TFullAdder" -> TFullAdder_step(comp)
      [] OTHER -> comp

\* ------------------------------------------------------------------ circuit

Wire(sc, sp, dc, dp) == [src_comp |-> sc, src_port |-> sp, dst_comp |-> dc, dst_port |-> dp]

\* self.components[cid].ports[port] raises KeyError
HasPort(comps, cid, port) == cid \in DOMAIN comps /\ port \in DOMAIN comps[cid].ports

\* inputs.setdefault(key, []).append(val) on the dict `inputs`, a list of
\* [key, drivers] entries in insertion order
setdefault_append(inputs, key, val) ==
    LET keys == [i \in 1 .. Len(inputs) |-> inputs[i].key]
        k == index(keys, key)
    IN  IF k = 0 THEN Append(inputs, [key |-> key, drivers |-> <<val>>])
        ELSE [inputs EXCEPT ![k].drivers = Append(@, val)]

\* Circuit.step, 1): the loop over self.wires from wire i on
RECURSIVE collect_drivers(_, _, _, _)
collect_drivers(comps, ws, i, inputs) ==
    IF i > Len(ws) THEN [inputs |-> inputs, raised |-> "none"]
    ELSE IF ~HasPort(comps, ws[i].src_comp, ws[i].src_port)
    THEN [inputs |-> inputs, raised |-> "KeyError"]
    ELSE collect_drivers(comps, ws, i + 1,
             setdefault_append(inputs, <<ws[i].dst_comp, ws[i].dst_port>>,
                               comps[ws[i].src_comp].ports[ws[i].src_port]))

\* A slip of the second loop: a destination that does not exist is skipped.
RECURSIVE resolve_inputs_skip(_, _, _)
resolve_inputs_skip(comps, inputs, i) ==
    IF i > Len(inputs) THEN [components |-> comps, raised |-> "none"]
    ELSE LET cid == inputs[i].key[1]
             port == inputs[i].key[2]
         IN  IF ~HasPort(comps, cid, port)
             THEN resolve_inputs_skip(comps, inputs, i + 1)
             ELSE resolve_inputs_skip(
                      [comps EXCEPT ![cid].ports[port] = resolve_wire(inputs[i].drivers)],
                      inputs, i + 1)

\* Circuit.step, 2): the loop over inputs.items() from entry i on; a missing
\* destination raises after the earlier entries were written
RECURSIVE resolve_inputs(_, _, _)
resolve_inputs(comps, inputs, i) ==
    IF i > Len(inputs) THEN [components |-> comps, raised |-> "none"]
    ELSE LET cid == inputs[i].key[1]
             port == inputs[i].key[2]
         IN  IF ~HasPort(comps, cid, port)
             THEN [components |-> comps, raised |-> "KeyError"]
             ELSE resolve_inputs(
                      [comps EXCEPT ![cid].ports[port] = resolve_wire(inputs[i].drivers)],
                      inputs, i + 1)

\* Circuit.step, 3): comp.step() for the components in the sequence ord, from i on
RECURSIVE step_components(_, _, _)
step_components(comps, ord, i) ==
    IF i > Len(ord) THEN comps
    ELSE step_components([comps EXCEPT ![ord[i]] = comp_step(@)], ord, i + 1)

\* A slip of step: each component's inputs are resolved right before its own
\* transfer function runs, so it sees outputs written earlier in the same call.
RECURSIVE rippleFrom(_, _, _, _)
rippleFrom(comps, ord, ws, i) ==
    IF i > Len(ord) THEN comps
    ELSE LET mine == SelectSeq(ws, LAMBDA w : w.dst_comp = ord[i])
             c1 == resolve_inputs(comps, collect_drivers(comps, mine, 1, <<>>).inputs, 1).components
         IN  rippleFrom([c1 EXCEPT ![ord[i]] = comp_step(@)], ord, ws, i + 1)

step_ripple(comps, ord, ws) ==
    LET col == collect_drivers(comps, ws, 1, <<>>)
        res == resolve_inputs(comps, col.inputs, 1)
    IN  IF col.raised # "none" THEN [components |-> comps, raised |-> col.raised]
        ELSE IF res.raised # "none" THEN res
        ELSE [components |-> rippleFrom(comps, ord, ws, 1), raised |-> "none"]

\* A slip of step: the two phases are repeated until nothing changes (at most
\* once per component), which settles an acyclic circuit within one call.
RECURSIVE settle(_, _, _, _)
settle(comps, ord, ws, n) ==
    LET after == step_components(
                     resolve_inputs(comps, collect_drivers(comps, ws, 1, <<>>).inputs, 1).components,
                     ord, 1)
    IN  IF n = 0 \/ after = comps THEN comps
        ELSE settle(after, ord, ws, n - 1)

step_settle(comps, ord, ws) ==
    LET col == collect_drivers(comps, ws, 1, <<>>)
        res == resolve_inputs(comps, col.inputs, 1)
    IN  IF col.raised # "none" THEN [components |-> comps, raised |-> col.raised]
        ELSE IF res.raised # "none" THEN res
        ELSE [components |-> settle(comps, ord, ws, Len(ord)), raised |-> "none"]

\* A slip of step: every port no wire drives is reset to 0 before the
\* transfer functions run.
step_reset(comps, ord, ws) ==
    LET col == collect_drivers(comps, ws, 1, <<>>)
        res == resolve_inputs(comps, col.inputs, 1)
        driven == {<<ws[i].dst_comp, ws[i].dst_port>> : i \in 1 .. Len(ws)}
        cleared == [cid \in DOMAIN comps |->
                       [res.components[cid] EXCEPT !.ports =
                           [p \in DOMAIN @ |->
                               IF <<cid, p>> \in driven \/ p \in {"out", "so", "co"}
                               THEN @[p] ELSE 0]]]
    IN  IF col.raised # "none" THEN [components |-> comps, raised |-> col.raised]
        ELSE IF res.raised # "none" THEN res
        ELSE [components |-> step_components(cleared, ord, 1), raised |-> "none"]

\* A slip of step: the ports are written only once every destination is
\* known to exist, so a call that raises leaves the circuit as it was.
step_checked(comps, ord, ws) ==
    LET col == collect_drivers(comps, ws, 1, <<>>)
        res == resolve_inputs(comps, col.inputs, 1)
    IN  IF col.raised # "none" THEN [components |-> comps, raised |-> col.raised]
        ELSE IF res.raised # "none" THEN [components |-> comps, raised |-> res.raised]
        ELSE [components |-> step_components(res.components, ord, 1), raised |-> "none"]

\* Circuit.step on the components comps (dict order ord) and the wire list ws:
\* the components afterwards and the exception raised
step(comps, ord, ws) ==
    LET col == collect_drivers(comps, ws, 1, <<>>)
        res == resolve_inputs(comps, col.inputs, 1)
    IN  IF col.raised # "none" THEN [components |-> comps, raised |-> col.raised]
        ELSE IF res.raised # "none" THEN res
        ELSE [components |-> step_components(res.components, ord, 1), raised |-> "none"]

\* A slip of set_switch: the value is stored and the output port is left for
\* the next step to update.
set_switch_stored(comp, value) ==
    IF comp.type = "SwitchBinary"
    THEN [comp EXCEPT !.value = IF value # 0 THEN 1 ELSE 0]
    ELSE [comp EXCEPT !.value = clamp_t(value)]

\* Circuit.set_switch on an existing component
set_switch(comp, value) ==
    IF comp.type = "SwitchBinary"
    THEN LET v == IF value # 0 THEN 1 ELSE 0
         IN  set_out([comp EXCEPT !.value = v], "out", v)
    ELSE LET v == clamp_t(value)
         IN  set_out([comp EXCEPT !.value = v], "out", v)

\* ------------------------------------------------------------------ construction

\* c.add(comp) for each [id, type, value] of parts, then c.connect(...) for each
\* wire of ws, on a new Circuit (load_circuit_from_json; run() of the smoke test)
RECURSIVE add_all(_, _, _)
add_all(comps, parts, i) ==
    IF i > Len(parts) THEN comps
    ELSE add_all(comps @@ (parts[i].id :> Construct(parts[i].type, parts[i].value)),
                 parts, i + 1)

Built(parts, ws) ==
    /\ components = add_all(<<>>, parts, 1)
    /\ order = [i \in 1 .. Len(parts) |-> parts[i].id]
    /\ wires = ws
    /\ raised = "none"
    /\ lastOp = "init"

Part(id, ctype, value) == [id |-> id, type |-> ctype, value |-> value]

\* ------------------------------------------------------------------ persistence

\* the keys of COMPONENT_REGISTRY
RegistryTypes == SwitchTypes \cup GateTypes

\* one entry of a description's 'components' list; params is <<>> for a
\* missing or empty 'params' and <<v>> for {'value': v}
Entry(id, ctype, params) == [id |-> id, type |-> ctype, params |-> params]

\* load_circuit_from_json, the loop over data['components'] from entry i on,
\* on the components comps (dict order ord) of the new Circuit c
RECURSIVE load_components(_, _, _, _)
load_components(comps, ord, entries, i) ==
    IF i > Len(entries) THEN [components |-> comps, order |-> ord, raised |-> "none"]
    ELSE LET e == entries[i]
         IN  IF e.type \notin RegistryTypes
             THEN [components |-> comps, order |-> ord, raised |-> "ValueError"]
             ELSE IF e.params # <<>> /\ e.type \notin SwitchTypes
             THEN [components |-> comps, order |-> ord, raised |-> "TypeError"]
             ELSE IF e.id \in DOMAIN comps
             THEN [components |-> comps, order |-> ord, raised |-> "ValueError"]
             ELSE load_components(
                      comps @@ (e.id :> Construct(e.type, IF e.params = <<>> THEN 0 ELSE e.params[1])),
                      Append(ord, e.id), entries, i + 1)

\* load_circuit_from_json on the description desc: the Circuit c as it is when
\* the function returns or raises
load_circuit_from_json(desc) ==
    LET lc == load_components(<<>>, <<>>, desc.components, 1)
    IN  [components |-> lc.components,
         order |-> lc.order,
         wires |-> IF lc.raised = "none" THEN desc.wires ELSE <<>>,
         raised |-> lc.raised]

\* dump_circuit_to_json: the description of the circuit comps (dict order ord), ws
dump_circuit_to_json(comps, ord, ws) ==
    [components |->
         [i \in 1 .. Len(ord) |->
             Entry(ord[i], comps[ord[i]].type,
                   IF comps[ord[i]].type \in SwitchTypes
                   THEN <<comps[ord[i]].ports["out"]>>
                   ELSE <<>>)],
     wires |-> ws]

\* ------------------------------------------------------------------ actions

\* A slip of add: no check of the id, the new component takes the place of
\* the one already stored under it.
Add_replace(part) ==
    /\ IF part.id \in DOMAIN components
       THEN /\ components' = [components EXCEPT ![part.id] = Construct(part.type, part.value)]
            /\ order' = order
       ELSE /\ components' = components @@ (part.id :> Construct(part.type, part.value))
            /\ order' = Append(order, part.id)
    /\ raised' = "none"
    /\ lastOp' = "add"
    /\ UNCHANGED <<wires, hist, pc, drivers, resolved, probed>>

\* c.add(cls(id, value))
Add(part) ==
    /\ IF part.id \in DOMAIN components
       THEN /\ raised' = "ValueError"
            /\ UNCHANGED <<components, order>>
       ELSE /\ components' = components @@ (part.id :> Construct(part.type, part.value))
            /\ order' = Append(order, part.id)
            /\ raised' = "none"
    /\ lastOp' = "add"
    /\ UNCHANGED <<wires, hist, pc, drivers, resolved, probed>>

\* c.connect(src_comp, src_port, dst_comp, dst_port)
Connect(w) ==
    /\ Len(wires) < MaxWires
    /\ wires' = Append(wires, w)
    /\ raised' = "none"
    /\ lastOp' = "connect"
    /\ UNCHANGED <<components, order, hist, pc, drivers, resolved, probed>>

\* c.step()
StepCircuit ==
    LET r == step(components, order, wires)
    IN  /\ components' = r.components
        /\ raised' = r.raised
        /\ lastOp' = "step"
        /\ UNCHANGED <<order, wires>>

Step ==
    /\ StepCircuit
    /\ UNCHANGED <<hist, pc, drivers, resolved, probed>>

\* A slip of set_switch: the final else is missing, the call on a component
\* that is no switch returns without doing anything.
SetSwitchCircuit_silent(cid, value) ==
    /\ IF cid \notin DOMAIN components
       THEN /\ raised' = "KeyError"
            /\ UNCHANGED components
       ELSE IF components[cid].type \notin SwitchTypes
       THEN /\ raised' = "none"
            /\ UNCHANGED components
       ELSE /\ components' = [components EXCEPT ![cid] = set_switch(@, value)]
            /\ raised' = "none"
    /\ lastOp' = "set_switch"
    /\ UNCHANGED <<order, wires>>

\* c.set_switch(comp_id, value)
SetSwitchCircuit(cid, value) ==
    /\ IF cid \notin DOMAIN components
       THEN /\ raised' = "KeyError"
            /\ UNCHANGED components
       ELSE IF components[cid].type \notin SwitchTypes
       THEN /\ raised' = "ValueError"
            /\ UNCHANGED components
       ELSE /\ components' = [components EXCEPT ![cid] = set_switch(@, value)]
            /\ raised' = "none"
    /\ lastOp' = "set_switch"
    /\ UNCHANGED <<order, wires>>

SetSwitch(cid, value) ==
    /\ SetSwitchCircuit(cid, value)
    /\ UNCHANGED <<hist, pc, drivers, resolved, probed>>

\* comp.toggle() on a switch of the circuit
ToggleCircuit(cid) ==
    /\ cid \in DOMAIN components
    /\ components[cid].type \in SwitchTypes
    /\ components' = [components EXCEPT ![cid] = toggle(@)]
    /\ raised' = "none"
    /\ lastOp' = "toggle"
    /\ UNCHANGED <<order, wires>>

Toggle(cid) ==
    /\ ToggleCircuit(cid)
    /\ UNCHANGED <<hist, pc, drivers, resolved, probed>>

\* c.get_probe(comp_id)
GetProbeCircuit(cid) ==
    /\ IF cid \notin DOMAIN components
       THEN /\ raised' = "KeyError"
            /\ probed' = <<>>
       ELSE IF components[cid].type # "Probe"
       THEN /\ raised' = "ValueError"
            /\ probed' = <<>>
       ELSE /\ raised' = "none"
            /\ probed' = <<components[cid].last>>
    /\ lastOp' = "get_probe"
    /\ UNCHANGED <<components, order, wires>>

GetProbe(cid) ==
    /\ GetProbeCircuit(cid)
    /\ UNCHANGED <<hist, pc, drivers, resolved>>

\* A slip of load_json: the circuit under construction is installed even when
\* the loader raised.
Load_partial(desc) ==
    LET c == load_circuit_from_json(desc)
    IN  /\ components' = c.components
        /\ order' = c.order
        /\ wires' = c.wires
        /\ raised' = c.raised
        /\ lastOp' = "load"
        /\ UNCHANGED <<hist, pc, drivers, resolved, probed>>

\* Canvas.load_json: self.circuit = load_circuit_from_json(text); when the
\* loader raises the assignment does not happen
Load(desc) ==
    LET c == load_circuit_from_json(desc)
    IN  /\ IF c.raised # "none"
           THEN UNCHANGED <<components, order, wires>>
           ELSE /\ components' = c.components
                /\ order' = c.order
                /\ wires' = c.wires
        /\ raised' = c.raised
        /\ lastOp' = "load"
        /\ UNCHANGED <<hist, pc, drivers, resolved, probed>>

\* a delete_selected that forgets the wire list
Delete_keep_wires(cid) ==
    /\ cid \in DOMAIN components
    /\ components' = [k \in DOMAIN components \ {cid} |-> components[k]]
    /\ order' = SelectSeq(order, LAMBDA k : k # cid)
    /\ raised' = "none"
    /\ lastOp' = "delete"
    /\ UNCHANGED <<wires, hist, pc, drivers, resolved, probed>>

\* Canvas.delete_selected with self.selected = cid, a component of the circuit
Delete(cid) ==
    /\ cid \in DOMAIN components
    /\ wires' = SelectSeq(wires, LAMBDA w : w.src_comp # cid /\ w.dst_comp # cid)
    /\ components' = [k \in DOMAIN components \ {cid} |-> components[k]]
    /\ order' = SelectSeq(order, LAMBDA k : k # cid)
    /\ raised' = "none"
    /\ lastOp' = "delete"
    /\ UNCHANGED <<hist, pc, drivers, resolved, probed>>

\* the id Canvas.add_component makes: f"{ctype}_{len(self.circuit.components)+1}"
CanvasId(ctype, comps) == ctype \o "_" \o ToString(Cardinality(DOMAIN comps) + 1)

\* Canvas.add_component(ctype, pos): switches are constructed with value 0,
\* the others without arguments, and the component goes through Circuit.add
Place(ctype) ==
    /\ Cardinality(DOMAIN components) < MaxPlaced
    /\ Add(Part(CanvasId(ctype, components), ctype, 0))

\* the keys of Canvas.port_map after paintEvent: the ports of the components
\* in the circuit
port_map(comps) ==
    {cp \in (DOMAIN comps) \X {"in", "out"} : cp[2] \in DOMAIN comps[cp[1]].ports}

\* Canvas.mouseReleaseEvent with self.wire_start = (s_cid, s_port), released
\* on the port (cid, port): a wire is made only between an output and an
\* input, and always from the output to the input
DrawWire(s_cid, s_port, cid, port) ==
    /\ <<s_cid, s_port>> \in port_map(components)
    /\ <<cid, port>> \in port_map(components)
    /\ LET s_is_out == PortDirection(components[s_cid].type, s_port) = "out"
           d_is_out == PortDirection(components[cid].type, port) = "out"
       IN  IF s_is_out # d_is_out
           THEN IF s_is_out
                THEN Connect(Wire(s_cid, s_port, cid, port))
                ELSE Connect(Wire(cid, port, s_cid, s_port))
           ELSE /\ raised' = "none"
                /\ lastOp' = "release"
                /\ UNCHANGED <<components, order, wires, hist, pc, drivers, resolved, probed>>

\* ------------------------------------------------------------------ Spec: the engine's API on a new circuit

\* constructor calls the Add action draws from
Parts ==
    {Part("s", "SwitchTernary", v) : v \in FewInts}
        \cup {Part("n", "TNOT", 0), Part("p", "Probe", 0)}

PartIds == {p.id : p \in Parts}

\* connect calls the Connect action draws from: fan-in on n.in, a self-loop and
\* a wire into an output port; a wire is invalid while a component it names is
\* not in the circuit
PaletteWires ==
    { Wire("s", "out", "n", "in"),
      Wire("n", "out", "n", "in"),
      Wire("n", "out", "p", "in"),
      Wire("s", "out", "n", "out") }

Init ==
    /\ components = <<>>
    /\ order = <<>>
    /\ wires = <<>>
    /\ raised = "none"
    /\ lastOp = "init"
    /\ hist = <<>>
    /\ pc = "start"
    /\ drivers = <<>>
    /\ resolved = <<>>
    /\ probed = <<>>

Next ==
    \/ \E p \in Parts : Add(p)
    \/ \E w \in PaletteWires : Connect(w)
    \/ Step
    \/ \E cid \in PartIds, v \in FewInts : SetSwitch(cid, v)
    \/ \E cid \in PartIds : Toggle(cid)

Spec == Init /\ [][Next]_vars

\* ------------------------------------------------------------------ SpecLatch: the API on a switch, a latch and a gate

LatchParts ==
    {Part("s", "SwitchTernary", v) : v \in FewInts}
        \cup {Part("l", "TLatch", 0), Part("n", "TNOT", 0)}

LatchIds == {p.id : p \in LatchParts}

\* connect calls drawn: the latch's two inputs, a wire into its output port and
\* a wire to the gate n, invalid until n is added
LatchWires ==
    { Wire("s", "out", "l", "in"),
      Wire("s", "out", "l", "enable"),
      Wire("s", "out", "l", "out"),
      Wire("s", "out", "n", "in") }

NextLatch ==
    \/ \E p \in LatchParts : Add(p)
    \/ \E w \in LatchWires : Connect(w)
    \/ Step
    \/ \E cid \in LatchIds, v \in FewInts : SetSwitch(cid, v)
    \/ \E cid \in LatchIds : Toggle(cid)

SpecLatch == Init /\ [][NextLatch]_vars

\* ------------------------------------------------------------------ SpecEdit: the API and the canvas's delete

EditParts == {Part("s", "SwitchTernary", v) : v \in FewInts} \cup {Part("n", "TNOT", 0)}

EditIds == {p.id : p \in EditParts}

EditWires ==
    { Wire("s", "out", "n", "in"),
      Wire("n", "out", "n", "in"),
      Wire("s", "out", "n", "zz") }

NextEdit ==
    \/ \E p \in EditParts : Add(p)
    \/ \E w \in EditWires : Connect(w)
    \/ Step
    \/ \E cid \in EditIds, v \in FewInts : SetSwitch(cid, v)
    \/ \E cid \in EditIds : Toggle(cid)
    \/ \E cid \in EditIds : Delete(cid)

SpecEdit == Init /\ [][NextEdit]_vars

\* ------------------------------------------------------------------ SpecCanvas: a circuit edited on the canvas only

\* the toolbar buttons the specification presses
CanvasPalette == {"SwitchBinary", "TNOT"}

\* the ids add_component can make
CanvasIds == {ctype \o "_" \o ToString(k) : ctype \in CanvasPalette, k \in 1 .. MaxPlaced}

NextCanvas ==
    \/ \E ctype \in CanvasPalette : Place(ctype)
    \/ \E s_cid \in CanvasIds, cid \in CanvasIds, s_port \in {"in", "out"}, port \in {"in", "out"} :
           DrawWire(s_cid, s_port, cid, port)
    \/ \E cid \in CanvasIds : Toggle(cid)
    \/ \E cid \in CanvasIds : Delete(cid)
    \/ Step

SpecCanvas == Init /\ [][NextCanvas]_vars

\* ------------------------------------------------------------------ SpecProbe: a probe beside a gate on one switch

ProbeParts ==
    {Part("s", "SwitchTernary", v) : v \in FewInts}
        \cup {Part("p", "Probe", 0), Part("n", "TNOT", 0)}

ProbeIds == {p.id : p \in ProbeParts}

ProbeWires ==
    { Wire("s", "out", "p", "in"),
      Wire("s", "out", "n", "in"),
      Wire("n", "out", "p", "in") }

NextProbe ==
    \/ \E p \in ProbeParts : Add(p)
    \/ \E w \in ProbeWires : Connect(w)
    \/ Step
    \/ \E cid \in ProbeIds, v \in FewInts : SetSwitch(cid, v)
    \/ \E cid \in ProbeIds : Toggle(cid)
    \/ \E cid \in ProbeIds : GetProbe(cid)

SpecProbe == Init /\ [][NextProbe]_vars

\* ------------------------------------------------------------------ SpecBench: one gate of each class on switches

\* the input ports each class declares, in the order of its constructor
InputPorts(ctype) ==
    CASE ctype = "TNOT" -> <<"in">>
      [] ctype = "TAND" -> <<"in1", "in2">>
      [] ctype = "TNOR" -> <<"in1", "in2">>
      [] ctype = "Transistor" -> <<"presence", "sign">>
      [] ctype = "TLatch" -> <<"in", "enable">>
      [] ctype = "Probe" -> <<"in">>
      [] ctype = "TFullAdder" -> <<"ai", "bi", "ci">>
      [] OTHER -> <<>>

BenchSwitches == <<"a", "b", "c">>

BenchIds == {"a", "b", "c", "k", "g"}

\* the i-th ternary switch drives the gate's i-th input; the binary switch k
\* drives the first input as well
BenchWires(ctype) ==
    [i \in 1 .. Len(InputPorts(ctype)) |-> Wire(BenchSwitches[i], "out", "g", InputPorts(ctype)[i])]
        \o <<Wire("k", "out", "g", InputPorts(ctype)[1])>>

InitBench ==
    /\ \E ctype \in GateTypes, va, vb, vc, vk \in ArgInts :
           Built(<<Part("a", "SwitchTernary", va), Part("b", "SwitchTernary", vb),
                   Part("c", "SwitchTernary", vc), Part("k", "SwitchBinary", vk),
                   Part("g", ctype, 0)>>,
                 BenchWires(ctype))
    /\ hist = <<>>
    /\ pc = "start"
    /\ drivers = <<>>
    /\ resolved = <<>>
    /\ probed = <<>>

NextBench ==
    \/ Step
    \/ \E cid \in BenchIds, v \in ArgInts : SetSwitch(cid, v)
    \/ \E cid \in BenchIds : Toggle(cid)
    \/ \E cid \in BenchIds : GetProbe(cid)

SpecBench == InitBench /\ [][NextBench]_vars

\* ------------------------------------------------------------------ SpecChain: switch -> g1 -> ... -> gN

GateId(k) == "g" \o ToString(k)

ChainParts ==
    <<Part("sw", "SwitchTernary", 0)>> \o [k \in 1 .. ChainLen |-> Part(GateId(k), "TNOT", 0)]

ChainWires ==
    [k \in 1 .. ChainLen |->
        Wire(IF k = 1 THEN "sw" ELSE GateId(k - 1), "out", GateId(k), "in")]

InitChain ==
    /\ Built(ChainParts, ChainWires)
    /\ hist = <<>>
    /\ pc = "start"
    /\ drivers = <<>>
    /\ resolved = <<>>
    /\ probed = <<>>

\* c.step(); hist records the switch output the call started from
ChainStep ==
    /\ StepCircuit
    /\ hist' = SubSeq(<<components["sw"].ports["out"]>> \o hist, 1,
                      min(Len(hist) + 1, ChainLen))
    /\ UNCHANGED <<pc, drivers, resolved, probed>>

NextChain ==
    \/ ChainStep
    \/ \E v \in ArgInts : SetSwitch("sw", v)
    \/ Toggle("sw")

SpecChain == InitChain /\ [][NextChain]_vars

\* ------------------------------------------------------------------ SpecRing: the chain closed into a cycle

\* the chain's wires, the last gate wired back to the first gate's input (a
\* cycle through every gate, with fan-in at g1) and to its own input (a
\* self-loop)
RingWires ==
    ChainWires \o <<Wire(GateId(ChainLen), "out", GateId(1), "in"),
                    Wire(GateId(ChainLen), "out", GateId(ChainLen), "in")>>

InitRing ==
    /\ Built(ChainParts, RingWires)
    /\ hist = <<>>
    /\ pc = "start"
    /\ drivers = <<>>
    /\ resolved = <<>>
    /\ probed = <<>>

NextRing ==
    \/ Step
    \/ \E v \in ArgInts : SetSwitch("sw", v)
    \/ Toggle("sw")

SpecRing == InitRing /\ [][NextRing]_vars

\* ------------------------------------------------------------------ SpecSmoke: the circuit of tests/smoke_test.py

SmokeParts ==
    <<Part("sw1", "SwitchTernary", 1), Part("sw2", "SwitchTernary", -1),
      Part("and1", "TAND", 0), Part("nor1", "TNOR", 0), Part("t1", "Transistor", 0),
      Part("l1", "TLatch", 0), Part("p1", "Probe", 0)>>

SmokeWires ==
    <<Wire("sw1", "out", "and1", "in1"), Wire("sw2", "out", "and1", "in2"),
      Wire("and1", "out", "t1", "presence"), Wire("sw1", "out", "t1", "sign"),
      Wire("t1", "out", "nor1", "in1"), Wire("sw2", "out", "nor1", "in2"),
      Wire("nor1", "out", "l1", "in"), Wire("sw1", "out", "l1", "enable"),
      Wire("l1", "out", "p1", "in")>>

InitSmoke ==
    /\ Built(SmokeParts, SmokeWires)
    /\ hist = <<>>
    /\ pc = "start"
    /\ drivers = <<>>
    /\ resolved = <<>>
    /\ probed = <<>>

\* c.get_probe(comp_id) on a Probe of the circuit
get_probe(comps, cid) == comps[cid].last

\* pc follows run(): step, sw1.toggle(), sw2.toggle(), step; any other call
\* leaves the script
SmokeStep ==
    /\ StepCircuit
    /\ pc' = CASE pc = "start" -> "step1"
               [] pc = "toggle2" -> "step2"
               [] OTHER -> "off"
    /\ UNCHANGED <<hist, drivers, resolved, probed>>

SmokeToggle(cid) ==
    /\ ToggleCircuit(cid)
    /\ pc' = CASE pc = "step1" /\ cid = "sw1" -> "toggle1"
               [] pc = "toggle1" /\ cid = "sw2" -> "toggle2"
               [] OTHER -> "off"
    /\ UNCHANGED <<hist, drivers, resolved, probed>>

NextSmoke ==
    \/ SmokeStep
    \/ \E cid \in {"sw1", "sw2"} : SmokeToggle(cid)

SpecSmoke == InitSmoke /\ [][NextSmoke]_vars

\* ------------------------------------------------------------------ SpecResolve: resolve_wire on a driver list

InitResolve ==
    /\ Built(<<>>, <<>>)
    /\ hist = <<>>
    /\ pc = "start"
    /\ drivers = <<>>
    /\ resolved = <<>>
    /\ probed = <<>>

\* one more driver value on the list
Drive(v) ==
    /\ resolved = <<>>
    /\ Len(drivers) < MaxDrivers
    /\ drivers' = Append(drivers, v)
    /\ UNCHANGED <<components, order, wires, raised, lastOp, hist, pc, resolved, probed>>

\* resolve_wire(drivers)
Resolve ==
    /\ resolved = <<>>
    /\ resolved' = <<resolve_wire(drivers)>>
    /\ UNCHANGED <<components, order, wires, raised, lastOp, hist, pc, drivers, probed>>

NextResolve ==
    \/ \E v \in Trits : Drive(v)
    \/ Resolve

SpecResolve == InitResolve /\ [][NextResolve]_vars

\* ------------------------------------------------------------------ SpecLoad: descriptions loaded into the canvas

\* the entries descriptions are made of: a switch with its value, a gate, a
\* gate given a parameter its constructor does not take, a type that is not
\* in the registry
LoadEntries ==
    { Entry("s", "SwitchTernary", <<1>>),
      Entry("n", "TNOT", <<>>),
      Entry("n", "TNOT", <<1>>),
      Entry("x", "TXOR", <<>>) }

\* the descriptions handed to the loader: every list of at most LoadLen
\* entries, with or without a wire
Descriptions ==
    {[components |-> cs, wires |-> ws] :
        cs \in UNION {[1 .. n -> LoadEntries] : n \in 0 .. LoadLen},
        ws \in {<<>>, <<Wire("s", "out", "n", "in")>>}}

NextLoad ==
    \/ \E desc \in Descriptions : Load(desc)
    \/ Step
    \/ \E v \in FewInts : SetSwitch("s", v)
    \/ Toggle("s")

SpecLoad == Init /\ [][NextLoad]_vars

\* ------------------------------------------------------------------ SpecSwitch: the API on two switches and a gate

SwitchParts ==
    {Part("s", "SwitchTernary", v) : v \in FewInts}
        \cup {Part("k", "SwitchBinary", v) : v \in FewInts}
        \cup {Part("n", "TNOT", 0)}

SwitchIds == {p.id : p \in SwitchParts}

\* connect calls drawn: the switches into the gate, and wires whose
\* destination is the 'out' port of a switch, which connect accepts as any other
SwitchWires ==
    { Wire("s", "out", "n", "in"),
      Wire("k", "out", "n", "in"),
      Wire("s", "out", "k", "out"),
      Wire("n", "out", "k", "out") }

NextSwitch ==
    \/ \E p \in SwitchParts : Add(p)
    \/ \E w \in SwitchWires : Connect(w)
    \/ Step
    \/ \E cid \in SwitchIds, v \in FewInts : SetSwitch(cid, v)
    \/ \E cid \in SwitchIds : Toggle(cid)

SpecSwitch == Init /\ [][NextSwitch]_vars

\* ------------------------------------------------------------------ claims

\* the last call was a step that returned
Stepped == lastOp = "step" /\ raised = "none"

\* the values the sources of the wires of ws into port d = <<component, port>> hold
DriverValues(comps, ws, d) ==
    LET sel == SelectSeq(ws, LAMBDA w : <<w.dst_comp, w.dst_port>> = d)
    IN  [i \in 1 .. Len(sel) |-> comps[sel[i].src_comp].ports[sel[i].src_port]]

Destinations(ws) == {<<ws[i].dst_comp, ws[i].dst_port>> : i \in 1 .. Len(ws)}

\* a port some transfer function writes in the third phase of step
WrittenByTransfer(comps, d) ==
    comps[d[1]].type \notin SwitchTypes /\ PortDirection(comps[d[1]].type, d[2]) = "out"

\* the components after the first two phases of step (all wires valid)
AfterResolution(comps, ws) ==
    resolve_inputs(comps, collect_drivers(comps, ws, 1, <<>>).inputs, 1).components

\* C1: a step that returns writes into every port some wire drives resolve_wire
\* of the values the wire sources held before the call: that is the port's value
\* when the transfer functions start, and still its value when step returns
\* unless the port is an output its own component's transfer function rewrites.
\* No value written by a transfer function in the same call is read.
C1_StepResolvesPreStepValues ==
    [][(lastOp' = "step" /\ raised' = "none") =>
          \A d \in Destinations(wires) :
              LET expected == resolve_wire(DriverValues(components, wires, d))
              IN  /\ AfterResolution(components, wires)[d[1]].ports[d[2]] = expected
                  /\ ~WrittenByTransfer(components, d)
                         => components'[d[1]].ports[d[2]] = expected]_vars

\* a step returned in which gate n, driving its own input together with the
\* switch, changed its output: its input holds the resolution of the old values
C1_Witness ==
    /\ Stepped
    /\ wires = <<Wire("s", "out", "n", "in"), Wire("n", "out", "n", "in")>>
    /\ "n" \in DOMAIN components
    /\ components["n"].ports["in"] = 1
    /\ components["n"].ports["out"] = -1

\* every wire of ws names ports that exist
ValidWires(comps, ws) ==
    \A i \in 1 .. Len(ws) :
        /\ HasPort(comps, ws[i].src_comp, ws[i].src_port)
        /\ HasPort(comps, ws[i].dst_comp, ws[i].dst_port)

\* the orders in which the elements of the sequence s can be listed
Orderings(s) ==
    {[i \in 1 .. Len(s) |-> s[f[i]]] :
        f \in {g \in [1 .. Len(s) -> 1 .. Len(s)] :
                  \A i, j \in 1 .. Len(s) : i # j => g[i] # g[j]}}

\* C3: with valid wires (cyclic or not), the state after step is the same for
\* every order in which the components' transfer functions are invoked.
C3_EvaluationOrderNotObservable ==
    ValidWires(components, wires) =>
        LET result == step(components, order, wires)
        IN  \A ord \in Orderings(order) : step(components, ord, wires) = result

\* a step returned on a circuit of three components in which gate n, driven by
\* the switch, changed the output that drives the probe: the probe read the
\* old output whichever of n and p was evaluated first
C3_Witness ==
    /\ Stepped
    /\ Len(order) = 3
    /\ wires = <<Wire("s", "out", "n", "in"), Wire("n", "out", "p", "in")>>
    /\ components["n"].ports["out"] = 1
    /\ components["p"].last = -1

\* the wire lists C6 compares with ws: its permutations and ws with one wire repeated
Rewirings(ws) ==
    Orderings(ws) \cup {Append(ws, ws[i]) : i \in 1 .. Len(ws)}

\* C6 as stated: permuting the wire list or repeating a wire never changes the
\* state step leaves.
C6_WireOrderNeverMatters ==
    LET result == step(components, order, wires)
    IN  \A ws \in Rewirings(wires) : step(components, order, ws).components = result.components

\* C6 amended: when every wire's destination port exists, permuting the wire
\* list or repeating a wire changes neither the state step leaves nor whether
\* it raises.
C6_WireOrderWithDestinations ==
    (\A i \in 1 .. Len(wires) : HasPort(components, wires[i].dst_comp, wires[i].dst_port)) =>
        LET result == step(components, order, wires)
        IN  \A ws \in Rewirings(wires) : step(components, order, ws) = result

\* n.in is driven by the switch at 1 and by n's own output at -1: the two wire
\* orders hand resolve_wire <<1, -1>> and <<-1, 1>>
C6_Witness ==
    /\ Stepped
    /\ wires = <<Wire("s", "out", "n", "in"), Wire("n", "out", "n", "in")>>
    /\ ValidWires(components, wires)
    /\ components["s"].ports["out"] = 1
    /\ components["n"].ports["out"] = -1

Latches(comps) == {cid \in DOMAIN comps : comps[cid].type = "TLatch"}

\* C8 as stated, on the steps that return: the memory becomes `in` when the
\* resolved enable is 1; otherwise memory and output keep their previous value.
C8_LatchHoldsMemoryAndOutput ==
    [][(lastOp' = "step" /\ raised' = "none") =>
          \A cid \in Latches(components) :
              IF components'[cid].ports["enable"] = 1
              THEN components'[cid].state = components'[cid].ports["in"]
              ELSE /\ components'[cid].state = components[cid].state
                   /\ components'[cid].ports["out"] = components[cid].ports["out"]]_vars

\* C8 amended: a step writes the memory only if it returns and the resolved
\* enable is 1 (the memory becomes the resolved `in`); on every other step the
\* memory keeps its value whatever `in` is.  A step that returns leaves the
\* output equal to the memory, so on a hold the output keeps its value too
\* whenever it was equal to the memory before the step.
C8_LatchWritesOnlyOnEnable ==
    [][lastOp' = "step" =>
          \A cid \in Latches(components) :
              IF raised' # "none"
              THEN components'[cid].state = components[cid].state
              ELSE /\ components'[cid].ports["out"] = components'[cid].state
                   /\ IF components'[cid].ports["enable"] = 1
                      THEN components'[cid].state = components'[cid].ports["in"]
                      ELSE /\ components'[cid].state = components[cid].state
                           /\ components[cid].ports["out"] = components[cid].state
                                  => components'[cid].ports["out"] = components[cid].ports["out"]]_vars

\* a step returned on which the latch, holding 1 from an earlier enabled step,
\* saw enable = -1 and in = -1, and kept its memory and output
C8_Witness ==
    /\ Stepped
    /\ "l" \in DOMAIN components
    /\ components["l"].ports["enable"] = -1
    /\ components["l"].ports["in"] = -1
    /\ components["l"].state = 1
    /\ components["l"].ports["out"] = 1

\* the input ports of the components comps that no wire of ws drives
UndrivenInputs(comps, ws) ==
    {d \in UNION {{<<cid, port>> : port \in DOMAIN comps[cid].ports} : cid \in DOMAIN comps} :
        /\ PortDirection(comps[d[1]].type, d[2]) = "in"
        /\ d \notin Destinations(ws)}

\* C7: step, whether it returns or raises, leaves every input port that no
\* wire drives at the value it had.
C7_UndrivenInputsKeepValue ==
    [][lastOp' = "step" =>
          \A d \in UndrivenInputs(components, wires) :
              components'[d[1]].ports[d[2]] = components[d[1]].ports[d[2]]]_vars

\* a step returned while n.in, left at 1 by a wire since removed, was undriven
C7_Witness ==
    /\ Stepped
    /\ <<"n", "in">> \in UndrivenInputs(components, wires)
    /\ components["n"].ports["in"] = 1
    /\ components["n"].ports["out"] = -1

\* (-1)^k * v: v passed through k TNOT gates
Negated(k, v) == IF k % 2 = 0 THEN v ELSE -v

\* C2: one step is one hop.  In the chain sw -> g1 -> ... -> gN the output of
\* the k-th gate is decided by the switch output as it was when the k-th most
\* recent step started (the initial 0 before k steps were made): a change of
\* the switch shows at gate k after exactly k steps and not before.
C2_OneStepOneHop ==
    \A k \in 1 .. ChainLen :
        components[GateId(k)].ports["out"] =
            Negated(k, IF k <= Len(hist) THEN hist[k] ELSE 0)

\* three steps ago the switch was at -1, it was set to 1 before the last two:
\* g1 and g2 show the new value, g3 still the old one
C2_Witness ==
    /\ Stepped
    /\ Len(hist) >= 3
    /\ hist[1] = 1 /\ hist[2] = 1 /\ hist[3] = -1
    /\ components["g1"].ports["out"] = -1
    /\ components["g2"].ports["out"] = 1
    /\ components["g3"].ports["out"] = 1

\* C4: the value of every port of every component is in {-1, 0, 1}.
C4_PortsHoldTrits ==
    \A cid \in DOMAIN components :
        \A port \in DOMAIN components[cid].ports :
            components[cid].ports[port] \in Trits

\* the adder was stepped on 1 + 1 + 1: the sum 3 left carry 1 and digit 0
C4_Witness ==
    /\ Stepped
    /\ components["g"].type = "TFullAdder"
    /\ components["g"].ports["ai"] = 1
    /\ components["g"].ports["bi"] = 1
    /\ components["g"].ports["ci"] = 1
    /\ components["g"].ports["co"] = 1
    /\ components["g"].ports["so"] = 0

\* C5: resolve_wire gives 0 for a list holding both -1 and 1, else 1 if the
\* list holds a 1, else -1 if it holds a -1, else 0.
C5_ResolveFollowsConflictRule ==
    resolved # <<>> =>
        LET pos == \E i \in 1 .. Len(drivers) : drivers[i] = 1
            neg == \E i \in 1 .. Len(drivers) : drivers[i] = -1
        IN  resolved[1] = CASE pos /\ neg -> 0
                            [] pos /\ ~neg -> 1
                            [] neg /\ ~pos -> -1
                            [] OTHER -> 0

\* resolve_wire returned 0 for a list whose first driver is -1 and which holds a 1
C5_Witness ==
    /\ resolved = <<0>>
    /\ Len(drivers) >= 3
    /\ drivers[1] = -1
    /\ drivers[2] = 0
    /\ drivers[3] = 1

\* C9: in the circuit of the smoke test the probe reads 0 after the first step
\* and again after toggling sw1 (to -1) and sw2 (to 0) and stepping once more.
C9_SmokeProbeReadsZero ==
    /\ pc = "step1" => get_probe(components, "p1") = 0
    /\ pc = "step2" =>
           /\ components["sw1"].value = -1
           /\ components["sw2"].value = 0
           /\ get_probe(components, "p1") = 0

\* the script ran to its end: the gates ahead of the latch have moved
C9_Witness ==
    /\ pc = "step2"
    /\ Stepped
    /\ components["t1"].ports["out"] = -1
    /\ components["and1"].ports["out"] = -1

\* C10: after a step the adder's outputs satisfy so + 3 * co = ai + bi + ci,
\* with so and co in {-1, 0, 1}, for all input trits.
C10_AdderSumAndCarry ==
    (Stepped /\ components["g"].type = "TFullAdder") =>
        LET ports == components["g"].ports
        IN  /\ ports["so"] + 3 * ports["co"] = ports["ai"] + ports["bi"] + ports["ci"]
            /\ ports["so"] \in Trits
            /\ ports["co"] \in Trits

\* the adder was stepped on -1 + -1 + 0: carry -1, digit 1
C10_Witness ==
    /\ Stepped
    /\ components["g"].type = "TFullAdder"
    /\ components["g"].ports["ai"] = -1
    /\ components["g"].ports["bi"] = -1
    /\ components["g"].ports["ci"] = 0
    /\ components["g"].ports["co"] = -1
    /\ components["g"].ports["so"] = 1

\* C11: after a step that returns, the output of every TNOT is -in, of every
\* TAND the smaller of in1 and in2, of every TNOR minus the larger of in1 and
\* in2, the inputs being the values the step resolved into them.
C11_GatesApplyTransfer ==
    Stepped =>
        \A cid \in DOMAIN components :
            LET c == components[cid]
                p == c.ports
            IN  /\ c.type = "TNOT" => p["out"] = -p["in"]
                /\ c.type = "TAND" =>
                       /\ p["out"] \in {p["in1"], p["in2"]}
                       /\ p["out"] <= p["in1"] /\ p["out"] <= p["in2"]
                /\ c.type = "TNOR" =>
                       /\ -p["out"] \in {p["in1"], p["in2"]}
                       /\ -p["out"] >= p["in1"] /\ -p["out"] >= p["in2"]

\* a TNOR was stepped on (-1, -1) and shows 1
C11_Witness ==
    /\ Stepped
    /\ components["g"].type = "TNOR"
    /\ components["a"].ports["out"] = -1
    /\ components["g"].ports["in1"] = -1
    /\ components["g"].ports["in2"] = -1
    /\ components["g"].ports["out"] = 1

\* C12: after a step that returns, a Transistor's output is its sign input
\* when presence and sign are both non-zero and 0 otherwise; a presence of -1
\* conducts like a presence of 1.
C12_TransistorConducts ==
    Stepped =>
        \A cid \in DOMAIN components :
            LET p == components[cid].ports
            IN  components[cid].type = "Transistor" =>
                    p["out"] = IF p["presence"] \in {-1, 1} /\ p["sign"] \in {-1, 1}
                               THEN p["sign"] ELSE 0

\* a Transistor was stepped on presence -1 and sign 1 and shows 1
C12_Witness ==
    /\ Stepped
    /\ components["g"].type = "Transistor"
    /\ components["g"].ports["presence"] = -1
    /\ components["g"].ports["sign"] = 1
    /\ components["g"].ports["out"] = 1

\* C13: a set_switch(cid, v) call that returns leaves, at once, the switch's
\* stored value and its 'out' port at clamp(v) for a SwitchTernary and at
\* 1 if v # 0 else 0 for a SwitchBinary; every other component and the wire
\* list are as before the call.
C13_SetSwitchImmediate ==
    [][(lastOp' = "set_switch" /\ raised' = "none") =>
          \A cid \in DOMAIN components, v \in ArgInts :
              SetSwitch(cid, v) =>
              LET expected == IF components[cid].type = "SwitchBinary"
                              THEN (IF v = 0 THEN 0 ELSE 1)
                              ELSE (IF v >= 1 THEN 1 ELSE IF v <= -1 THEN -1 ELSE 0)
              IN  /\ components'[cid].value = expected
                  /\ components'[cid].ports["out"] = expected
                  /\ DOMAIN components' = DOMAIN components
                  /\ \A other \in DOMAIN components \ {cid} :
                         components'[other] = components[other]
                  /\ wires' = wires]_vars

\* switch a, stepped into the TNOT at 1, was set to -1: its output shows -1
\* while the gate still holds the input and output of the last step
C13_Witness ==
    /\ lastOp = "set_switch"
    /\ raised = "none"
    /\ components["g"].type = "TNOT"
    /\ components["k"].value = 0
    /\ components["a"].value = -1
    /\ components["a"].ports["out"] = -1
    /\ components["g"].ports["in"] = 1
    /\ components["g"].ports["out"] = -1

\* C14: toggle on a SwitchTernary takes the stored value -1 to 0, 0 to 1 and
\* 1 to -1 and sets the 'out' port to the new value in the same call; two
\* more toggles bring value and output back to the value before the first.
C14_TernaryToggleCycles ==
    [][lastOp' = "toggle" =>
          \A cid \in DOMAIN components :
              (Toggle(cid) /\ components[cid].type = "SwitchTernary") =>
                  LET old == components[cid].value
                      third == toggle(toggle(components'[cid]))
                  IN  /\ old \in {-1, 0, 1}
                      /\ old = -1 => components'[cid].value = 0
                      /\ old = 0 => components'[cid].value = 1
                      /\ old = 1 => components'[cid].value = -1
                      /\ components'[cid].ports["out"] = components'[cid].value
                      /\ third.value = old
                      /\ third.ports["out"] = old]_vars

\* the chain's switch was toggled from 1, which the first gate still holds,
\* round to -1
C14_Witness ==
    /\ lastOp = "toggle"
    /\ components["sw"].value = -1
    /\ components["sw"].ports["out"] = -1
    /\ components["g1"].ports["in"] = 1
    /\ Len(hist) >= 1
    /\ hist[1] = 1

\* C15: add with a component whose id is already in the circuit raises
\* ValueError and changes nothing: the component stored under that id, its
\* port values, the other components, their order and the wire list stay.
C15_DuplicateAddChangesNothing ==
    [][lastOp' = "add" =>
          \A part \in Parts :
              (Add(part) /\ part.id \in DOMAIN components) =>
                  /\ raised' = "ValueError"
                  /\ components' = components
                  /\ order' = order
                  /\ wires' = wires]_vars

\* an add was refused on a wired circuit that had been stepped: the switch
\* stored under "s" and the gate's ports hold values no constructor gives
C15_Witness ==
    /\ lastOp = "add"
    /\ raised = "ValueError"
    /\ Len(order) = 3
    /\ wires = <<Wire("s", "out", "n", "in"), Wire("n", "out", "p", "in")>>
    /\ components["s"].value = -1
    /\ components["n"].ports["in"] = -1
    /\ components["n"].ports["out"] = 1
    /\ components["p"].last = -1

\* C16: set_switch on a component of the circuit that is neither a
\* SwitchBinary nor a SwitchTernary raises ValueError, and get_probe on a
\* component that is not a Probe raises ValueError and returns no value;
\* neither call changes a port value, a component's state or the wire list.
C16_WrongVariantRaises ==
    [][/\ lastOp' = "set_switch" =>
              \A cid \in DOMAIN components, v \in ArgInts :
                  (components[cid].type \notin {"SwitchBinary", "SwitchTernary"} /\ SetSwitch(cid, v)) =>
                      /\ raised' = "ValueError"
                      /\ components' = components
                      /\ wires' = wires
       /\ lastOp' = "get_probe" =>
              \A cid \in DOMAIN components :
                  (components[cid].type # "Probe" /\ GetProbe(cid)) =>
                      /\ raised' = "ValueError"
                      /\ probed' = <<>>
                      /\ components' = components
                      /\ wires' = wires]_vars

\* get_probe was refused in the bench whose gate is the Probe, so it was
\* called on one of the switches; the probe keeps the reading of the last step
C16_Witness ==
    /\ lastOp = "get_probe"
    /\ raised = "ValueError"
    /\ components["g"].type = "Probe"
    /\ components["g"].last = -1
    /\ components["g"].ports["in"] = -1

\* C17: connect checks nothing: whatever the endpoints, it returns and its
\* only effect is the new wire at the end of the wire list.  step returns when
\* every wire's source and destination component and port exist and raises
\* KeyError when some wire names a component or a port that does not.
C17_WireValidationDeferred ==
    [][/\ lastOp' = "connect" =>
              /\ raised' = "none"
              /\ components' = components
              /\ order' = order
              /\ \A w \in EditWires : Connect(w) => wires' = wires \o <<w>>
       /\ lastOp' = "step" =>
              raised' = IF \A i \in 1 .. Len(wires) :
                               /\ wires[i].src_comp \in DOMAIN components
                               /\ wires[i].src_port \in DOMAIN components[wires[i].src_comp].ports
                               /\ wires[i].dst_comp \in DOMAIN components
                               /\ wires[i].dst_port \in DOMAIN components[wires[i].dst_comp].ports
                        THEN "none" ELSE "KeyError"]_vars

\* both components exist and connect took a wire to n's port "zz", which n
\* does not have: the step wrote n.in and raised
C17_Witness ==
    /\ lastOp = "step"
    /\ raised = "KeyError"
    /\ DOMAIN components = {"s", "n"}
    /\ wires = <<Wire("s", "out", "n", "in"), Wire("s", "out", "n", "zz")>>
    /\ components["s"].ports["out"] = 1
    /\ components["n"].ports["in"] = 1
    /\ components["n"].ports["out"] = 0

\* the description names a type that is not in the registry
HasUnknownType(desc) ==
    \E i \in 1 .. Len(desc.components) : desc.components[i].type \notin RegistryTypes

\* the entries ahead of the first unknown type are well formed: their ids
\* differ and only switches are given a parameter
WellFormedBeforeUnknown(desc) ==
    LET cs == desc.components
        bad == CHOOSE i \in 1 .. Len(cs) :
                   /\ cs[i].type \notin RegistryTypes
                   /\ \A j \in 1 .. i - 1 : cs[j].type \in RegistryTypes
    IN  /\ \A j \in 1 .. bad - 1 :
               cs[j].params = <<>> \/ cs[j].type \in {"SwitchBinary", "SwitchTernary"}
        /\ \A j, k \in 1 .. bad - 1 : j # k => cs[j].id # cs[k].id

\* C18 as stated: loading a description that names an unknown type raises the
\* unknown-type ValueError and installs nothing, wherever the entry stands.
C18_UnknownTypeRaisesValueError ==
    [][lastOp' = "load" =>
          \A desc \in Descriptions :
              (HasUnknownType(desc) /\ Load(desc)) =>
                  /\ raised' = "ValueError"
                  /\ components' = components
                  /\ order' = order
                  /\ wires' = wires]_vars

\* C18 amended: loading a description that names an unknown type never
\* returns and installs nothing, wherever the entry stands: the canvas keeps
\* the circuit it had.  The error is the unknown-type ValueError when the
\* entries ahead of the unknown type are well formed; otherwise it is the
\* error of the first entry that is not.
C18_UnknownTypeLoadsNothing ==
    [][lastOp' = "load" =>
          \A desc \in Descriptions :
              (HasUnknownType(desc) /\ Load(desc)) =>
                  /\ raised' \in {"ValueError", "TypeError"}
                  /\ WellFormedBeforeUnknown(desc) => raised' = "ValueError"
                  /\ components' = components
                  /\ order' = order
                  /\ wires' = wires]_vars

\* a load was refused while the canvas held a circuit loaded before and
\* stepped since: the circuit is still there with the values of its last step
C18_Witness ==
    /\ lastOp = "load"
    /\ raised = "ValueError"
    /\ order = <<"n", "s">>
    /\ wires = <<Wire("s", "out", "n", "in")>>
    /\ components["s"].value = -1
    /\ components["n"].ports["in"] = 1
    /\ components["n"].ports["out"] = -1

Switches(comps) == {cid \in DOMAIN comps : comps[cid].type \in {"SwitchBinary", "SwitchTernary"}}

\* C19: for every circuit reached by add, connect, set_switch, toggle and
\* step, loading its dump returns a circuit with the same component ids, in
\* the same order, and types, the same wire list, and every switch's stored
\* value and 'out' port equal to the switch's current value in the dumped
\* circuit (its stored value or, read the other way, the value of its port).
C19_DumpLoadRoundTrip ==
    LET c == load_circuit_from_json(dump_circuit_to_json(components, order, wires))
    IN  /\ c.raised = "none"
        /\ c.order = order
        /\ DOMAIN c.components = DOMAIN components
        /\ \A cid \in DOMAIN components : c.components[cid].type = components[cid].type
        /\ c.wires = wires
        /\ \A cid \in Switches(components) :
               \E current \in {components[cid].value, components[cid].ports["out"]} :
                   /\ c.components[cid].value = current
                   /\ c.components[cid].ports["out"] = current

\* C20: in every reachable state, whatever wires connect accepted, the stored
\* value of each switch equals the value of its 'out' port.
C20_SwitchValueIsOutput ==
    \A cid \in Switches(components) :
        components[cid].value = components[cid].ports["out"]

\* C21 as stated: in every state between operations, after calls that
\* returned or raised, the memory of each TLatch equals its 'out' port.
C21_LatchMemoryIsOutput ==
    \A cid \in Latches(components) :
        components[cid].state = components[cid].ports["out"]

\* C21 amended: the memory of a TLatch equals its 'out' port when the latch
\* is added and after every step that returns, and no add, connect,
\* set_switch or toggle call, returning or raising, makes them differ: only a
\* step that raises can leave the two different.
C21_LatchMemoryIsOutputUnlessStepRaised ==
    [][\A cid \in Latches(components') :
          /\ (lastOp' = "step" /\ raised' = "none") =>
                 components'[cid].state = components'[cid].ports["out"]
          /\ (lastOp' # "step" /\
                 (cid \in DOMAIN components =>
                      components[cid].state = components[cid].ports["out"])) =>
                 components'[cid].state = components'[cid].ports["out"]]_vars

\* a step returned on a latch whose 'out' port the switch drives at 1: the
\* second loop wrote 1 into the port and the latch put its memory 0 back
C21_Witness ==
    /\ Stepped
    /\ Len(wires) >= 1
    /\ wires[1] = Wire("s", "out", "l", "out")
    /\ "l" \in DOMAIN components
    /\ components["s"].ports["out"] = 1
    /\ components["l"].state = 0
    /\ components["l"].ports["out"] = 0

\* position in ws of the first wire into port d
FirstWireInto(ws, d) ==
    CHOOSE i \in 1 .. Len(ws) :
        /\ <<ws[i].dst_comp, ws[i].dst_port>> = d
        /\ \A j \in 1 .. i - 1 : <<ws[j].dst_comp, ws[j].dst_port>> # d

\* the destinations of ws that exist and come, in the order the wire list
\* first names them, ahead of every destination that does not exist
WrittenBeforeRaise(comps, ws) ==
    {d \in Destinations(ws) :
        /\ HasPort(comps, d[1], d[2])
        /\ \A m \in Destinations(ws) :
               ~HasPort(comps, m[1], m[2]) => FirstWireInto(ws, d) < FirstWireInto(ws, m)}

\* comps with each port of the set ds holding the resolution of its drivers
WithResolved(comps, ws, ds) ==
    [cid \in DOMAIN comps |->
        [comps[cid] EXCEPT !.ports =
            [port \in DOMAIN comps[cid].ports |->
                IF <<cid, port>> \in ds
                THEN resolve_wire(DriverValues(comps, ws, <<cid, port>>))
                ELSE comps[cid].ports[port]]]]

\* the complete post-step state: every driven input resolved from the
\* pre-step values, then every component evaluated once
CompleteStep(comps, ws) ==
    LET resolved_ == WithResolved(comps, ws, Destinations(ws))
    IN  [cid \in DOMAIN comps |-> comp_step(resolved_[cid])]

\* every wire of ws has a source port that exists
ValidSources(comps, ws) ==
    \A i \in 1 .. Len(ws) : HasPort(comps, ws[i].src_comp, ws[i].src_port)

\* C22 as stated: when step returns or raises, port values, latch memories
\* and probe readings are the pre-step state or the complete post-step state.
C22_StepIsAllOrNothing ==
    [][lastOp' = "step" =>
          \/ components' = components
          \/ /\ ValidWires(components, wires)
             /\ components' = CompleteStep(components, wires)]_vars

\* C22 amended: a step that returns leaves the complete post-step state; a
\* step that raises for a wire whose source does not exist leaves exactly the
\* pre-step state; a step that raises for a destination that does not exist
\* has evaluated no component (latch memories, probe readings and output
\* ports are as before) but has written the resolved value into every
\* destination port that the wire list names ahead of the first missing one.
C22_StepLeavesWrittenDestinations ==
    [][lastOp' = "step" =>
          IF raised' = "none"
          THEN /\ ValidWires(components, wires)
               /\ components' = CompleteStep(components, wires)
          ELSE IF ~ValidSources(components, wires)
          THEN components' = components
          ELSE components' =
                   WithResolved(components, wires, WrittenBeforeRaise(components, wires))]_vars

\* a step raised for the probe that is not in the circuit after it had written
\* the switch's 1 into n.in: n's output is still the one of its construction
C22_Witness ==
    /\ lastOp = "step"
    /\ raised = "KeyError"
    /\ wires = <<Wire("s", "out", "n", "in"), Wire("n", "out", "p", "in")>>
    /\ DOMAIN components = {"s", "n"}
    /\ components["s"].ports["out"] = 1
    /\ components["n"].ports["in"] = 1
    /\ components["n"].ports["out"] = 0

\* C23: on a circuit whose wires are all valid, cycles and self-loops
\* included, step returns, and it has invoked the transfer function of each
\* component exactly once: the dict lists every component once, and each is
\* left as one application of its transfer function to its resolved inputs
\* leaves it, whether or not the circuit has settled.
C23_StepEvaluatesEachOnce ==
    [][(lastOp' = "step" /\ ValidWires(components, wires)) =>
          /\ raised' = "none"
          /\ \A cid \in DOMAIN components :
                 Cardinality({i \in 1 .. Len(order) : order[i] = cid}) = 1
          /\ \A cid \in DOMAIN components :
                 components'[cid] =
                     comp_step(WithResolved(components, wires, Destinations(wires))[cid])]_vars

\* a step returned on the ring and left a state that is no fixed point: the
\* first gate shows 1 while the last gate's output, wired back to it, is 1 too
C23_Witness ==
    /\ Stepped
    /\ wires = RingWires
    /\ components["sw"].ports["out"] = 0
    /\ components[GateId(1)].ports["out"] = 1
    /\ components[GateId(ChainLen)].ports["out"] = 1
    /\ CompleteStep(components, wires) # components

\* C24: in every state reached by constructing switches with any integer,
\* set_switch with any integer, toggle and step, the stored value and the
\* 'out' port of each SwitchBinary are 0 or 1.
C24_BinarySwitchIsBinary ==
    \A cid \in DOMAIN components :
        components[cid].type = "SwitchBinary" =>
            /\ components[cid].value \in {0, 1}
            /\ components[cid].ports["out"] \in {0, 1}

\* C25: placing a component on the canvas never fails with the duplicate-id
\* error of Circuit.add, after any placements and deletions.
C25_PlacementNeverDuplicates == lastOp = "add" => raised # "ValueError"

\* C26: in a circuit edited on the canvas only, every wire goes from an
\* output port of a component in the circuit to an input port of a component
\* in the circuit, deletions included, and no step raises.
C26_CanvasWiresStayValid ==
    /\ \A i \in 1 .. Len(wires) :
           /\ HasPort(components, wires[i].src_comp, wires[i].src_port)
           /\ PortDirection(components[wires[i].src_comp].type, wires[i].src_port) = "out"
           /\ HasPort(components, wires[i].dst_comp, wires[i].dst_port)
           /\ PortDirection(components[wires[i].dst_comp].type, wires[i].dst_port) = "in"
    /\ lastOp = "step" => raised = "none"

\* a step returned after the switch that drove the gate was deleted: the
\* gate's own wire back to its input is the only one left, and carries the
\* value the removed wire once brought in
C26_Witness ==
    /\ Stepped
    /\ DOMAIN components = {"TNOT_2"}
    /\ wires = <<Wire("TNOT_2", "out", "TNOT_2", "in")>>
    /\ components["TNOT_2"].ports["in"] = -1
    /\ components["TNOT_2"].ports["out"] = 1

Probes(comps) == {cid \in DOMAIN comps : comps[cid].type = "Probe"}

\* C27 as stated: in every state between operations, after calls that
\* returned or raised, the last observed value of each Probe equals the
\* value of its 'in' port.
C27_ProbeLastIsInput ==
    \A cid \in Probes(components) :
        components[cid].last = components[cid].ports["in"]

\* C27 amended: the last observed value of a Probe equals its 'in' port when
\* the probe is added and after every step that returns; add, connect,
\* set_switch, toggle and get_probe change neither of the two, so only a step
\* that raises can leave the port ahead of the last observed value; get_probe
\* changes no state of the circuit and returns the last observed value.
C27_ProbeLastIsInputUnlessStepRaised ==
    [][/\ \A cid \in Probes(components') :
              /\ (lastOp' = "step" /\ raised' = "none") =>
                     components'[cid].last = components'[cid].ports["in"]
              /\ cid \notin DOMAIN components =>
                     components'[cid].last = components'[cid].ports["in"]
              /\ (lastOp' # "step" /\ cid \in DOMAIN components) =>
                     /\ components'[cid].last = components[cid].last
                     /\ components'[cid].ports["in"] = components[cid].ports["in"]
       /\ lastOp' = "get_probe" =>
              /\ components' = components
              /\ order' = order
              /\ wires' = wires
              /\ \A cid \in Probes(components) :
                     GetProbe(cid) => probed' = <<components[cid].last>>]_vars

\* get_probe returned the -1 a step had brought to the probe, after the
\* switch that drives the probe was set to 1
C27_Witness ==
    /\ lastOp = "get_probe"
    /\ raised = "none"
    /\ probed = <<-1>>
    /\ wires = <<Wire("s", "out", "p", "in")>>
    /\ components["s"].ports["out"] = 1
    /\ components["p"].ports["in"] = -1
    /\ components["p"].last = -1

====
